---- MODULE Spec2Model ----
(***************************************************************************)
(* Stupyder: an egui application that edits a Python script, compiles and  *)
(* runs it in a long-lived RustPython kernel, and draws the plot commands  *)
(* the script recorded.  The model follows src/src/main.rs (TemplateApp,   *)
(* Kernel) and src/src/plot.rs (pyplotter).  One refresh cycle is one call *)
(* of TemplateApp::update; pc is the position inside that call.            *)
(***************************************************************************)
EXTENDS Integers, Sequences, FiniteSets

VARIABLES
    run_schedule,     \* save_data.run_schedule
    source_code,      \* save_data.source_code
    file_name,        \* save_data.file_name
    plot_info,        \* TemplateApp.plot_info
    load_file_event,  \* TemplateApp.load_file_event: <<>> (None) or <<file>> (Some)
    logs,             \* Kernel.logs
    scope,            \* Kernel.scope: the set of bindings <<name, value>>
    code_obj,         \* Kernel.code_obj: <<>> (None) or <<code>> (Some)
    COMMANDS,         \* pyplotter::COMMANDS (thread local)
    pc,               \* position inside update: idle top side bottom central run dump
    do_run,           \* update's local do_run
    new_code_loaded,  \* update's local new_code_loaded
    repaint,          \* a repaint is pending (ctx.request_repaint, or the first frame)
    picks,            \* number of pick_file tasks still running
    op,               \* history: what the last step did (load, run, reset, select, ...)
    cyc,              \* history of the current cycle (what happened in it)
    hist              \* history across cycles (the last run's commands, replays since)

vars == <<run_schedule, source_code, file_name, plot_info, load_file_event, logs,
          scope, code_obj, COMMANDS, pc, do_run, new_code_loaded, repaint, picks,
          op, cyc, hist>>

save_data == <<run_schedule, source_code, file_name>>
kernel == <<logs, scope, code_obj>>
locals == <<do_run, new_code_loaded>>

----------------------------------------------------------------------------
(* Bounds of the model *)

\* largest value the script variable x may reach
MaxX == 2
\* largest length of the Log Buffer
MaxLog == 3
\* largest number of pick_file tasks running at once
MaxPicks == 2
\* the count of replays of one command list stops at this number
MaxDraws == 2
\* largest length of COMMANDS in the specification of the pyplotter module
MaxCmds == 3
\* largest number of dump_commands calls in a row that are recorded
MaxDrains == 2
\* largest length of a command sequence given to the replay by itself
MaxReplay == 5

----------------------------------------------------------------------------
(* Run-cadence modes *)

RunSchedule == {"EachFrame", "OnInteract", "OnCompileSuccess", "Manual"}

RunScheduleDefault == "EachFrame"

----------------------------------------------------------------------------
(* Source texts and their compilation by the interpreter *)

SrcBad == "x = = 1"
SrcSet == "x = 1"
SrcInc == "x += 1; print(x)"
SrcPlot == "plot(a, a); plot(a, m); plot(a, [0])"
SrcFault == "x = 1; print(x); plot(x, x)"

Sources == {SrcBad, SrcSet, SrcInc, SrcPlot, SrcFault}

\* values a script passes to pyplotters.plot
ArrA == [ty |-> "PyNdArrayFloat64", ndim |-> 1]
ArrM == [ty |-> "PyNdArrayFloat64", ndim |-> 2]
PyList == [ty |-> "list", ndim |-> 1]
PyInt == [ty |-> "int", ndim |-> 0]

\* vm.compile: Ok(code) as <<"Ok", code>>, Err(e) as <<"Err", e>>
Compile(code) ==
    CASE code = SrcSet -> <<"Ok", << <<"set">> >> >>
      [] code = SrcInc -> <<"Ok", << <<"inc">>, <<"print">> >> >>
      [] code = SrcPlot -> <<"Ok", << <<"plot", ArrA, ArrA>>, <<"plot", ArrA, ArrM>>,
                                      <<"plot", ArrA, PyList>> >> >>
      [] code = SrcFault -> <<"Ok", << <<"set">>, <<"print">>, <<"plot", PyInt, PyInt>> >> >>
      [] OTHER -> <<"Err", "SyntaxError">>

\* two files of the same base name in different directories (file_name() is the base name)
Files == {<<SrcInc, "a.py">>, <<SrcBad, "a.py">>}

DefaultFileName == "example_project.py"
DefaultSource == SrcPlot
FileNames == {DefaultFileName, "a.py"}

----------------------------------------------------------------------------
(* Script execution *)

EmptyScope == {}
Bound(sc) == sc # {}
ValX(sc) == (CHOOSE b \in sc : b[1] = "x")[2]

Digits == <<"0", "1", "2", "3", "4", "5", "6", "7", "8", "9">>
Str(n) == Digits[n + 1]

\* a plot that puts the new command in front of the recorded ones
PlotCall_PushFront(st, x, y) ==
    IF x.ty # "PyNdArrayFloat64"
    THEN [st EXCEPT !.err = <<"RuntimeError: X Must be float32">>]
    ELSE IF y.ty # "PyNdArrayFloat64"
    THEN [st EXCEPT !.err = <<"RuntimeError: Y Must be float32">>]
    ELSE [st EXCEPT !.cmds = <<[tag |-> "PlotXY", x |-> x, y |-> y]>> \o @]

\* pyplotter::plot: the state after the call, err set when it raises
PlotCall(st, x, y) ==
    IF x.ty # "PyNdArrayFloat64"
    THEN [st EXCEPT !.err = <<"RuntimeError: X Must be float32">>]
    ELSE IF y.ty # "PyNdArrayFloat64"
    THEN [st EXCEPT !.err = <<"RuntimeError: Y Must be float32">>]
    ELSE [st EXCEPT !.cmds = Append(@, [tag |-> "PlotXY", x |-> x, y |-> y])]

\* one statement of the script, on st = [scope, out, cmds, err]
Step(st, stmt) ==
    CASE stmt[1] = "set" -> [st EXCEPT !.scope = {<<"x", 1>>}]
      [] stmt[1] = "inc" ->
            IF Bound(st.scope)
            THEN [st EXCEPT !.scope = {<<"x", ValX(st.scope) + 1>>}]
            ELSE [st EXCEPT !.err = <<"NameError: name 'x' is not defined">>]
      [] stmt[1] = "print" ->
            IF Bound(st.scope)
            THEN [st EXCEPT !.out = @ \o <<Str(ValX(st.scope)), "\n">>]
            ELSE [st EXCEPT !.err = <<"NameError: name 'x' is not defined">>]
      [] stmt[1] = "plot" -> PlotCall(st, stmt[2], stmt[3])

\* vm.run_code_obj: statements run in order until one raises
RECURSIVE RunCodeObj(_, _, _)
RunCodeObj(code, i, st) ==
    IF i > Len(code) \/ st.err # <<>>
    THEN st
    ELSE RunCodeObj(code, i + 1, Step(st, code[i]))

----------------------------------------------------------------------------
(* Kernel *)

\* a load that forgets the stored artifact when compilation fails
KernelLoad_DropOnError(k, code) ==
    LET code_obj_res == Compile(code) IN
    IF code_obj_res[1] = "Ok"
    THEN [k EXCEPT !.code_obj = <<code_obj_res[2]>>, !.ret = TRUE]
    ELSE [k EXCEPT !.logs = Append(@, "Compile error: " \o code_obj_res[2]),
                   !.code_obj = <<>>,
                   !.ret = FALSE]

\* Kernel::load on kernel state k = [logs, scope, code_obj]; ret is the return value
KernelLoad(k, code) ==
    LET code_obj_res == Compile(code) IN
    IF code_obj_res[1] = "Ok"
    THEN [k EXCEPT !.code_obj = <<code_obj_res[2]>>, !.ret = TRUE]
    ELSE [k EXCEPT !.logs = Append(@, "Compile error: " \o code_obj_res[2]),
                   !.ret = FALSE]

\* Kernel::new
KernelNew == [logs |-> <<>>, scope |-> EmptyScope, code_obj |-> <<>>, ret |-> FALSE]

\* a new kernel that falls back to the default project's artifact when the text
\* does not compile
KernelNewWithCode_StaleOnError(code) ==
    LET k == KernelLoad(KernelNew, code) IN
    IF k.ret THEN k ELSE [k EXCEPT !.code_obj = <<Compile(DefaultSource)[2]>>]

\* Kernel::new_with_code
KernelNewWithCode(code) == KernelLoad(KernelNew, code)

\* a run that takes the code object out of the kernel instead of cloning it
KernelRun_TakesCode(k) ==
    IF k.code_obj = <<>>
    THEN k
    ELSE LET code == k.code_obj[1]
             st == RunCodeObj(code, 1,
                       [scope |-> k.scope, out |-> <<>>, cmds |-> k.cmds, err |-> <<>>])
         IN [k EXCEPT !.scope = st.scope,
                      !.cmds = st.cmds,
                      !.ran = <<code>>,
                      !.code_obj = <<>>,
                      !.logs = IF st.err # <<>>
                               THEN (@ \o st.out) \o <<"Error: " \o st.err[1]>>
                               ELSE @ \o st.out]

\* a run that executes against a new scope each time
KernelRun_FreshScope(k) ==
    IF k.code_obj = <<>>
    THEN k
    ELSE LET code == k.code_obj[1]
             st == RunCodeObj(code, 1,
                       [scope |-> EmptyScope, out |-> <<>>, cmds |-> k.cmds, err |-> <<>>])
         IN [k EXCEPT !.scope = st.scope,
                      !.cmds = st.cmds,
                      !.ran = <<code>>,
                      !.logs = IF st.err # <<>>
                               THEN (@ \o st.out) \o <<"Error: " \o st.err[1]>>
                               ELSE @ \o st.out]

\* a run that reports that there is nothing to run
KernelRun_ReportsNoCode(k) ==
    IF k.code_obj = <<>>
    THEN [k EXCEPT !.logs = Append(@, "Error: no code loaded")]
    ELSE LET code == k.code_obj[1]
             st == RunCodeObj(code, 1,
                       [scope |-> k.scope, out |-> <<>>, cmds |-> k.cmds, err |-> <<>>])
         IN [k EXCEPT !.scope = st.scope,
                      !.cmds = st.cmds,
                      !.ran = <<code>>,
                      !.logs = IF st.err # <<>>
                               THEN (@ \o st.out) \o <<"Error: " \o st.err[1]>>
                               ELSE @ \o st.out]

\* a run that undoes the bindings of a script that raises
KernelRun_FaultRollsBack(k) ==
    IF k.code_obj = <<>>
    THEN k
    ELSE LET code == k.code_obj[1]
             st == RunCodeObj(code, 1,
                       [scope |-> k.scope, out |-> <<>>, cmds |-> k.cmds, err |-> <<>>])
         IN [k EXCEPT !.scope = IF st.err # <<>> THEN @ ELSE st.scope,
                      !.cmds = st.cmds,
                      !.ran = <<code>>,
                      !.logs = IF st.err # <<>>
                               THEN (@ \o st.out) \o <<"Error: " \o st.err[1]>>
                               ELSE @ \o st.out]

\* Kernel::run on k = [logs, scope, code_obj, cmds, ran]; cmds is the thread-local
\* COMMANDS, ran is the code object handed to vm.run_code_obj (<<>> when none was)
KernelRun(k) ==
    IF k.code_obj = <<>>
    THEN k
    ELSE LET code == k.code_obj[1]
             st == RunCodeObj(code, 1,
                       [scope |-> k.scope, out |-> <<>>, cmds |-> k.cmds, err |-> <<>>])
         IN [k EXCEPT !.scope = st.scope,
                      !.cmds = st.cmds,
                      !.ran = <<code>>,
                      !.logs = IF st.err # <<>>
                               THEN (@ \o st.out) \o <<"Error: " \o st.err[1]>>
                               ELSE @ \o st.out]

\* a drain that returns a copy and leaves the buffer as it was
dump_commands_Clone(cmds) == <<cmds, cmds>>

\* a drain that empties the buffer before reading it
dump_commands_ReturnsEmpty(cmds) == <<<<>>, <<>>>>

\* pyplotter::dump_commands: <<returned commands, COMMANDS afterwards>>
dump_commands(cmds) == <<cmds, <<>>>>

----------------------------------------------------------------------------
(* Rendering *)

Is1D(a) == a.ndim = 1

Malformed(c) == c.tag = "PlotXY" /\ ~(Is1D(c.x) /\ Is1D(c.y))

\* the title and ranges a replay starts with
ReplayDefaults == [title |-> "", xrange |-> <<-1, 1>>, yrange |-> <<-1, 1>>]

\* the chart of one series command under the running state st
Chart(c, st) ==
    [x |-> c.x, y |-> c.y, title |-> st.title, xrange |-> st.xrange, yrange |-> st.yrange]

\* a replay that draws every chart with the title and ranges the whole sequence
\* ends with
RECURSIVE ReplayFrom_FinalState(_, _, _, _)
ReplayFrom_FinalState(cmds, i, st, charts) ==
    IF i > Len(cmds)
    THEN [j \in 1..Len(charts) |-> Chart(charts[j], st)]
    ELSE LET c == cmds[i] IN
         CASE c.tag = "SetTitle" ->
                 ReplayFrom_FinalState(cmds, i + 1, [st EXCEPT !.title = c.text], charts)
           [] c.tag = "SetXRange" ->
                 ReplayFrom_FinalState(cmds, i + 1,
                                       [st EXCEPT !.xrange = <<c.left, c.right>>], charts)
           [] c.tag = "SetYRange" ->
                 ReplayFrom_FinalState(cmds, i + 1,
                                       [st EXCEPT !.yrange = <<c.bottom, c.top>>], charts)
           [] c.tag = "PlotXY" ->
                 ReplayFrom_FinalState(cmds, i + 1, st,
                                       IF Malformed(c) THEN charts
                                       ELSE Append(charts, Chart(c, st)))

\* the replay loop from command i on: st is the running title and ranges, charts
\* the charts drawn so far
RECURSIVE ReplayFrom(_, _, _, _)
ReplayFrom(cmds, i, st, charts) ==
    IF i > Len(cmds)
    THEN charts
    ELSE LET c == cmds[i] IN
         CASE c.tag = "SetTitle" ->
                 ReplayFrom(cmds, i + 1, [st EXCEPT !.title = c.text], charts)
           [] c.tag = "SetXRange" ->
                 ReplayFrom(cmds, i + 1, [st EXCEPT !.xrange = <<c.left, c.right>>], charts)
           [] c.tag = "SetYRange" ->
                 ReplayFrom(cmds, i + 1, [st EXCEPT !.yrange = <<c.bottom, c.top>>], charts)
           [] c.tag = "PlotXY" ->
                 ReplayFrom(cmds, i + 1, st,
                            IF Malformed(c) THEN charts ELSE Append(charts, Chart(c, st)))

\* draw_plots: the charts drawn, and err set when the replay returns Err
draw_plots(cmds) ==
    [charts |-> ReplayFrom(cmds, 1, ReplayDefaults, <<>>),
     err |-> IF \E i \in 1..Len(cmds) : Malformed(cmds[i])
             THEN <<"render error: malformed series">>
             ELSE <<>>]

\* if let Err(e) = draw_plots(..) { logs.push(e.to_string()) }
LogsAfterDraw(l, cmds) == l \o draw_plots(cmds).err

----------------------------------------------------------------------------
(* History variables *)

\* mode0: run_schedule when do_run was initialised; interact: the user did something
\* in this cycle; run_clicked: Run was pressed; edit_load: the result of the load that
\* followed an editor change; reset_load: the result of the load inside Reset;
\* ran: kernel.run() was called; replayed: what the on-screen replay was given;
\* polled: the pick results written since the poll before, kept until the top panel
CycInit == [mode0 |-> "none", interact |-> FALSE, run_clicked |-> FALSE,
            edit_load |-> "none", reset_load |-> "none", ran |-> FALSE,
            replayed |-> <<>>, polled |-> <<>>]

\* last_run_cmds: the commands recorded by the latest kernel.run(); ran_code: the code
\* object the kernel.run() of the last step executed; draws: on-screen replays of
\* plot_info since it was last assigned; writes: the pick results written to
\* load_file_event since the last poll, in the order of the writes; recorded: the
\* commands pushed to COMMANDS since the last drain; drained: the values returned by
\* the calls of dump_commands since the last push, for the calls whose value is not
\* assigned to plot_info (those of SpecDrain); charts: the charts drawn by the
\* replay of SpecReplay
HistInit == [last_run_cmds |-> <<>>, ran_code |-> <<>>, draws |-> 0, writes |-> <<>>,
             recorded |-> <<>>, drained |-> <<>>, charts |-> <<>>]

\* the commands of buffer after that were pushed since it was buffer before
Pushed(before, after) == SubSeq(after, Len(before) + 1, Len(after))

Result(ok) == IF ok THEN "ok" ELSE "fail"

\* the kernel state as the record the Kernel operators work on
K == [logs |-> logs, scope |-> scope, code_obj |-> code_obj, ret |-> FALSE]

LoadOp(k) == IF k.ret THEN "load_ok" ELSE "load_fail"
ResetOp(k) == IF k.ret THEN "reset_ok" ELSE "reset_fail"

----------------------------------------------------------------------------
(* The state after TemplateApp::new *)

Init ==
    /\ run_schedule \in RunSchedule
    /\ source_code \in Sources
    /\ file_name = DefaultFileName
    /\ plot_info = <<>>
    /\ load_file_event = <<>>
    /\ LET k == KernelNewWithCode(source_code) IN
          /\ logs = k.logs
          /\ scope = k.scope
          /\ code_obj = k.code_obj
    /\ COMMANDS = <<>>
    /\ pc = "idle"
    /\ do_run = FALSE
    /\ new_code_loaded = FALSE
    /\ repaint = TRUE
    /\ picks = 0
    /\ op = "init"
    /\ cyc = CycInit
    /\ hist = HistInit

----------------------------------------------------------------------------
(* TemplateApp::update, in the order of its statements *)

\* a match whose EachFrame arm does not set do_run
InitialDoRun_SkipEachFrame(mode) ==
    CASE mode = "OnCompileSuccess" -> FALSE
      [] mode = "Manual" -> FALSE
      [] mode = "OnInteract" -> TRUE
      [] mode = "EachFrame" -> FALSE

\* a do_run that is still set when the cycle before called run()
InitialDoRun_Sticky(mode) ==
    \/ do_run
    \/ CASE mode = "OnCompileSuccess" -> FALSE
         [] mode = "Manual" -> FALSE
         [] mode = "OnInteract" -> TRUE
         [] mode = "EachFrame" -> TRUE

\* let mut do_run = match self.save_data.run_schedule { .. }
InitialDoRun(mode) ==
    CASE mode = "OnCompileSuccess" -> FALSE
      [] mode = "Manual" -> FALSE
      [] mode = "OnInteract" -> TRUE
      [] mode = "EachFrame" -> TRUE

\* a match that never asks for another frame
RequestsRepaint_Never(mode) == FALSE

\* ctx.request_repaint() in the EachFrame arm of that match
RequestsRepaint(mode) == mode = "EachFrame"

\* a check that forgets the mode
FinalDoRun_AnyMode(dr, loaded, mode) == dr \/ loaded

\* if new_code_loaded && run_schedule == OnCompileSuccess { do_run = true }
FinalDoRun(dr, loaded, mode) == dr \/ (loaded /\ mode = "OnCompileSuccess")

\* a poll that reads the slot and leaves the value in it
per_frame_event_handlers_Peek(slot, text, name) ==
    IF slot # <<>>
    THEN [slot |-> slot, source_code |-> slot[1][1], file_name |-> slot[1][2]]
    ELSE [slot |-> slot, source_code |-> text, file_name |-> name]

\* per_frame_event_handlers on the slot and the document: the three afterwards
per_frame_event_handlers(slot, text, name) ==
    IF slot # <<>>
    THEN [slot |-> <<>>, source_code |-> slot[1][1], file_name |-> slot[1][2]]
    ELSE [slot |-> slot, source_code |-> text, file_name |-> name]

\* a poll that also loads the text of the file into the kernel
BeginCycle_LoadsFile ==
    /\ pc = "idle"
    /\ \E interact \in BOOLEAN :
          /\ interact \/ repaint
          /\ cyc' = [CycInit EXCEPT !.mode0 = run_schedule, !.interact = interact,
                                    !.polled = hist.writes]
    /\ LET polled == per_frame_event_handlers(load_file_event, source_code, file_name)
           k == IF load_file_event # <<>> THEN KernelLoad(K, polled.source_code) ELSE K
       IN /\ source_code' = polled.source_code
          /\ file_name' = polled.file_name
          /\ load_file_event' = polled.slot
          /\ logs' = k.logs
          /\ scope' = k.scope
          /\ code_obj' = k.code_obj
          /\ new_code_loaded' = k.ret
    /\ hist' = [hist EXCEPT !.writes = <<>>]
    /\ do_run' = InitialDoRun(run_schedule)
    /\ repaint' = RequestsRepaint(run_schedule)
    /\ op' = "poll"
    /\ pc' = "top"
    /\ UNCHANGED <<run_schedule, plot_info, COMMANDS, picks>>

\* per_frame_event_handlers, then the match on run_schedule that sets do_run.
\* update is called when the user does something or when a repaint is pending.
BeginCycle ==
    /\ pc = "idle"
    /\ \E interact \in BOOLEAN :
          /\ interact \/ repaint
          /\ cyc' = [CycInit EXCEPT !.mode0 = run_schedule, !.interact = interact,
                                    !.polled = hist.writes]
    /\ LET polled == per_frame_event_handlers(load_file_event, source_code, file_name) IN
          /\ source_code' = polled.source_code
          /\ file_name' = polled.file_name
          /\ load_file_event' = polled.slot
    /\ hist' = [hist EXCEPT !.writes = <<>>]
    /\ do_run' = InitialDoRun(run_schedule)
    /\ repaint' = RequestsRepaint(run_schedule)
    /\ new_code_loaded' = FALSE
    /\ op' = "poll"
    /\ pc' = "top"
    /\ UNCHANGED <<run_schedule, plot_info, kernel, COMMANDS, picks>>

TopEvents ==
    {<<"none">>, <<"open">>, <<"save">>, <<"load_default">>, <<"export_svg">>}
        \cup {<<"select", m>> : m \in RunSchedule}

\* the top panel: File menu, Run mode menu, Export menu
TopPanel(events) ==
    /\ pc = "top"
    /\ \E ev \in events :
          /\ ev # <<"none">> => cyc.interact
          /\ picks' = IF ev = <<"open">> THEN picks + 1 ELSE picks
          /\ picks' <= MaxPicks
          /\ IF ev = <<"load_default">>
             THEN /\ file_name' = DefaultFileName
                  /\ source_code' = DefaultSource
                  /\ run_schedule' = RunScheduleDefault
             ELSE /\ UNCHANGED <<file_name, source_code>>
                  /\ run_schedule' = IF ev[1] = "select" THEN ev[2] ELSE run_schedule
          /\ logs' = IF ev = <<"export_svg">> THEN LogsAfterDraw(logs, plot_info) ELSE logs
          /\ Len(logs') <= MaxLog
          /\ op' = ev[1]
    /\ cyc' = [cyc EXCEPT !.polled = <<>>]
    /\ pc' = "side"
    /\ UNCHANGED <<plot_info, load_file_event, scope, code_obj, COMMANDS, locals,
                   repaint, hist>>

\* the side panel: the on-screen replay of plot_info
SidePanel ==
    /\ pc = "side"
    /\ logs' = LogsAfterDraw(logs, plot_info)
    /\ Len(logs') <= MaxLog
    /\ cyc' = [cyc EXCEPT !.replayed = plot_info]
    /\ op' = "draw"
    /\ hist' = [hist EXCEPT !.draws = IF @ < MaxDraws THEN @ + 1 ELSE @]
    /\ pc' = "bottom"
    /\ UNCHANGED <<save_data, plot_info, load_file_event, scope, code_obj, COMMANDS,
                   locals, repaint, picks>>

BottomEvents == {"none", "run", "reset", "clear"}

\* the bottom panel: Run, Reset and Clear buttons
BottomPanel ==
    /\ pc = "bottom"
    /\ \E ev \in BottomEvents :
          /\ ev # "none" => cyc.interact
          /\ do_run' = IF ev = "run" THEN TRUE ELSE do_run
          /\ LET k == KernelNewWithCode(source_code) IN
             CASE ev = "reset" ->
                     /\ logs' = k.logs
                     /\ scope' = k.scope
                     /\ code_obj' = k.code_obj
                     /\ cyc' = [cyc EXCEPT !.reset_load = Result(k.ret)]
                     /\ op' = ResetOp(k)
               [] ev = "clear" ->
                     /\ logs' = <<>>
                     /\ UNCHANGED <<scope, code_obj, cyc>>
                     /\ op' = "clear"
               [] OTHER ->
                     /\ UNCHANGED kernel
                     /\ cyc' = [cyc EXCEPT !.run_clicked = (ev = "run")]
                     /\ op' = IF ev = "run" THEN "run_click" ELSE "none"
    /\ pc' = "central"
    /\ UNCHANGED <<save_data, plot_info, load_file_event, COMMANDS, new_code_loaded,
                   repaint, picks, hist>>

\* the central panel: file name field and code editor, then load if the text changed
CentralPanel ==
    /\ pc = "central"
    /\ \/ /\ UNCHANGED <<file_name, source_code, kernel, new_code_loaded, cyc>>
          /\ op' = "none"
       \/ /\ cyc.interact
          /\ \E n \in FileNames \ {file_name} : file_name' = n
          /\ UNCHANGED <<source_code, kernel, new_code_loaded, cyc>>
          /\ op' = "rename"
       \/ /\ cyc.interact
          /\ \E text \in Sources \ {source_code} :
                LET k == KernelLoad(K, text) IN
                   /\ source_code' = text
                   /\ logs' = k.logs
                   /\ Len(logs') <= MaxLog
                   /\ scope' = k.scope
                   /\ code_obj' = k.code_obj
                   /\ new_code_loaded' = k.ret
                   /\ cyc' = [cyc EXCEPT !.edit_load = Result(k.ret)]
                   /\ op' = LoadOp(k)
          /\ UNCHANGED file_name
    /\ pc' = "run"
    /\ UNCHANGED <<run_schedule, plot_info, load_file_event, COMMANDS, do_run,
                   repaint, picks, hist>>

\* the OnCompileSuccess check, then kernel.run() when do_run
RunStep ==
    /\ pc = "run"
    /\ IF FinalDoRun(do_run, new_code_loaded, run_schedule)
       THEN LET k == KernelRun([logs |-> logs, scope |-> scope, code_obj |-> code_obj,
                                cmds |-> COMMANDS, ran |-> <<>>]) IN
               /\ logs' = k.logs
               /\ Len(logs') <= MaxLog
               /\ scope' = k.scope
               /\ Bound(scope') => ValX(scope') <= MaxX
               /\ code_obj' = k.code_obj
               /\ COMMANDS' = k.cmds
               /\ cyc' = [cyc EXCEPT !.ran = TRUE]
               /\ op' = "run"
               /\ do_run' = TRUE
               /\ UNCHANGED new_code_loaded
               /\ hist' = [hist EXCEPT
                             !.last_run_cmds = SubSeq(k.cmds, Len(COMMANDS) + 1, Len(k.cmds)),
                             !.ran_code = k.ran,
                             !.recorded = @ \o Pushed(COMMANDS, k.cmds)]
               /\ pc' = "dump"
       ELSE /\ UNCHANGED <<logs, scope, code_obj, COMMANDS, cyc, hist>>
            /\ op' = "none"
            /\ do_run' = FALSE
            /\ new_code_loaded' = FALSE
            /\ pc' = "idle"
    /\ UNCHANGED <<save_data, plot_info, load_file_event, repaint, picks>>

\* self.plot_info = dump_commands()
DumpStep ==
    /\ pc = "dump"
    /\ plot_info' = dump_commands(COMMANDS)[1]
    /\ COMMANDS' = dump_commands(COMMANDS)[2]
    /\ hist' = [hist EXCEPT !.draws = 0, !.ran_code = <<>>, !.recorded = <<>>]
    /\ op' = "dump"
    /\ new_code_loaded' = FALSE
    /\ pc' = "idle"
    /\ UNCHANGED <<save_data, load_file_event, kernel, do_run, repaint, picks, cyc>>

----------------------------------------------------------------------------
(* The background task spawned by pick_file.  The slot is behind a mutex and      *)
(* update touches it only in its first statement, so a write that lands during   *)
(* the rest of update is the same as one that lands right after update returns:  *)
(* the task's steps are taken between cycles.                                    *)

\* a task that writes only into an empty slot
PickComplete_KeepsFirst ==
    /\ pc = "idle"
    /\ picks > 0
    /\ \E f \in Files :
          /\ load_file_event' = IF load_file_event = <<>> THEN <<f>> ELSE load_file_event
          /\ hist' = [hist EXCEPT !.writes = Append(@, f)]
    /\ picks' = picks - 1
    /\ UNCHANGED <<save_data, plot_info, kernel, COMMANDS, pc, locals, repaint, op, cyc>>

\* the picker returned a file whose bytes are UTF-8: the slot is overwritten
PickComplete ==
    /\ pc = "idle"
    /\ picks > 0
    /\ \E f \in Files :
          /\ load_file_event' = <<f>>
          /\ hist' = [hist EXCEPT !.writes = Append(@, f)]
    /\ picks' = picks - 1
    /\ UNCHANGED <<save_data, plot_info, kernel, COMMANDS, pc, locals, repaint, op, cyc>>

\* the picker returned None, or the bytes are not UTF-8: nothing is written
PickAbandon ==
    /\ pc = "idle"
    /\ picks > 0
    /\ picks' = picks - 1
    /\ UNCHANGED <<save_data, plot_info, load_file_event, kernel, COMMANDS, pc, locals,
                   repaint, op, cyc, hist>>

\* the refresh loop of a session in which File > Open is not used
Next ==
    \/ BeginCycle
    \/ TopPanel(TopEvents \ {<<"open">>})
    \/ SidePanel
    \/ BottomPanel
    \/ CentralPanel
    \/ RunStep
    \/ DumpStep

Spec == Init /\ [][Next]_vars

\* the refresh loop with File > Open and the pick_file tasks it spawns
NextFiles ==
    \/ BeginCycle
    \/ TopPanel(TopEvents)
    \/ SidePanel
    \/ BottomPanel
    \/ CentralPanel
    \/ RunStep
    \/ DumpStep
    \/ PickComplete
    \/ PickAbandon

SpecFiles == Init /\ [][NextFiles]_vars

\* the host calls update when a repaint was requested, and a call of update runs to
\* its end; the user is never obliged to do anything
SpecLive ==
    /\ Init
    /\ [][Next]_vars
    /\ WF_vars(BeginCycle /\ ~cyc'.interact)
    /\ WF_vars(Next /\ pc # "idle")

----------------------------------------------------------------------------
(* The pyplotter module by itself: calls of plot and dump_commands in any order *)

PlotArgs == {ArrA, ArrM, PyList}

\* COMMANDS starts empty (RefCell::default); the rest of the state is not touched
InitDrain ==
    /\ Init
    /\ run_schedule = RunScheduleDefault
    /\ source_code = DefaultSource

\* a script calls plot(x, y)
PlotterPlot ==
    /\ \E x, y \in PlotArgs :
          LET st == PlotCall([scope |-> scope, out |-> <<>>, cmds |-> COMMANDS,
                              err |-> <<>>], x, y) IN
             /\ COMMANDS' = st.cmds
             /\ Len(COMMANDS') <= MaxCmds
             /\ hist' = [hist EXCEPT
                           !.recorded = @ \o Pushed(COMMANDS, st.cmds),
                           !.drained = IF Pushed(COMMANDS, st.cmds) = <<>> THEN @ ELSE <<>>]
    /\ op' = "plot"
    /\ UNCHANGED <<save_data, plot_info, load_file_event, kernel, pc, locals, repaint,
                   picks, cyc>>

\* a call of dump_commands
PlotterDump ==
    /\ Len(hist.drained) < MaxDrains
    /\ COMMANDS' = dump_commands(COMMANDS)[2]
    /\ hist' = [hist EXCEPT !.recorded = <<>>,
                            !.drained = Append(@, dump_commands(COMMANDS)[1])]
    /\ op' = "dump"
    /\ UNCHANGED <<save_data, plot_info, load_file_event, kernel, pc, locals, repaint,
                   picks, cyc>>

NextDrain ==
    \/ PlotterPlot
    \/ PlotterDump

SpecDrain == InitDrain /\ [][NextDrain]_vars

----------------------------------------------------------------------------
(* The replay by itself: draw_plots on command sequences of every variant *)

ReplayCmds ==
    {[tag |-> "SetTitle", text |-> t] : t \in {"A", "B"}}
        \cup {[tag |-> "SetXRange", left |-> 0, right |-> 10],
              [tag |-> "SetYRange", bottom |-> 0, top |-> 5],
              [tag |-> "PlotXY", x |-> ArrA, y |-> ArrA]}

InitReplay ==
    /\ run_schedule = RunScheduleDefault
    /\ source_code = DefaultSource
    /\ file_name = DefaultFileName
    /\ plot_info \in UNION {[1..n -> ReplayCmds] : n \in 0..MaxReplay}
    /\ load_file_event = <<>>
    /\ LET k == KernelNewWithCode(source_code) IN
          /\ logs = k.logs
          /\ scope = k.scope
          /\ code_obj = k.code_obj
    /\ COMMANDS = <<>>
    /\ pc = "idle"
    /\ do_run = FALSE
    /\ new_code_loaded = FALSE
    /\ repaint = TRUE
    /\ picks = 0
    /\ op = "init"
    /\ cyc = CycInit
    /\ hist = HistInit

\* if let Err(e) = draw_plots(&area, &self.plot_info) { logs.push(..) }
ReplayStep ==
    /\ op = "init"
    /\ hist' = [hist EXCEPT !.charts = draw_plots(plot_info).charts]
    /\ logs' = LogsAfterDraw(logs, plot_info)
    /\ op' = "draw"
    /\ UNCHANGED <<save_data, plot_info, load_file_event, scope, code_obj, COMMANDS, pc,
                   locals, repaint, picks, cyc>>

SpecReplay == InitReplay /\ [][ReplayStep]_vars

----------------------------------------------------------------------------
(* Properties *)

CycleEnd == pc = "idle" /\ cyc.mode0 # "none"

\* the mode was m when do_run was initialised and is still m at the end of the cycle
\* (only the Run mode menu, once per cycle, can change it in between)
CycleInMode(m) == CycleEnd /\ cyc.mode0 = m /\ run_schedule = m

Diagnostic(text) == "Compile error: " \o Compile(text)[2]

\* C1: a load of a text that does not compile returns false, appends exactly one
\* entry (the compile diagnostic) to the log and leaves the stored artifact as it
\* was; a run() executes the stored artifact, so it executes the earlier one.
C1_FailedLoadKeepsArtifact ==
    [][/\ op' = "load_fail" =>
            /\ Compile(source_code')[1] = "Err"
            /\ ~new_code_loaded'
            /\ logs' = Append(logs, Diagnostic(source_code'))
            /\ code_obj' = code_obj
       /\ op' = "run" => hist'.ran_code = code_obj]_vars

C1_Witness ==
    /\ op = "load_fail"
    /\ code_obj = <<Compile(SrcInc)[2]>>
    /\ Len(logs) >= 2

\* C2: a load of a text that compiles returns true and stores the artifact compiled
\* from that text in place of the earlier one (also the load inside Reset); run()
\* leaves the stored artifact unchanged whether the script finishes or faults.
C2_LoadStoresRunKeeps ==
    [][/\ op' = "load_ok" =>
            /\ Compile(source_code')[1] = "Ok"
            /\ new_code_loaded'
            /\ code_obj' = <<Compile(source_code')[2]>>
       /\ op' = "reset_ok" => code_obj' = <<Compile(source_code')[2]>>
       /\ op' = "run" => code_obj' = code_obj]_vars

C2_Witness ==
    /\ op = "run"
    /\ code_obj = <<Compile(SrcPlot)[2]>>
    /\ logs # <<>>
    /\ logs[Len(logs)] = "Error: RuntimeError: Y Must be float32"

\* C3: the scope persists across run() calls: only run() and Reset change it, run()
\* of "x += 1; print(x)" on a scope that binds x adds one to that x and prints it, and
\* only Reset takes a scope with bindings back to the empty scope.
C3_ScopePersists ==
    [][/\ op' \notin {"run", "reset_ok", "reset_fail"} => scope' = scope
       /\ op' \in {"reset_ok", "reset_fail"} => scope' = EmptyScope
       /\ (op' = "run" /\ code_obj = <<Compile(SrcInc)[2]>> /\ Bound(scope)) =>
            /\ scope' = {<<"x", ValX(scope) + 1>>}
            /\ logs' = logs \o <<Str(ValX(scope) + 1), "\n">>
       /\ (op' = "run" /\ Bound(scope)) => Bound(scope')]_vars

C3_Witness ==
    /\ op = "run"
    /\ scope = {<<"x", 2>>}
    /\ Len(logs) >= 2
    /\ logs[Len(logs) - 1] = "2"
    /\ cyc.edit_load = "none"
    /\ cyc.reset_load = "none"

\* C4: a cycle that starts in EachFrame mode calls run(), whatever the user does in it.
C4_EachFrameRuns == (CycleEnd /\ cyc.mode0 = "EachFrame") => cyc.ran

C4_Witness ==
    /\ CycleEnd
    /\ cyc.mode0 = "EachFrame"
    /\ ~cyc.interact
    /\ cyc.ran

\* C5: a cycle in Manual mode in which Run was not pressed does not call run(), also
\* when the editor changed and load returned true.
C5_ManualNeedsRun == (CycleInMode("Manual") /\ ~cyc.run_clicked) => ~cyc.ran

C5_Witness ==
    /\ CycleInMode("Manual")
    /\ ~cyc.run_clicked
    /\ cyc.edit_load = "ok"
    /\ ~cyc.ran

\* C6: a cycle in OnInteract mode calls run() only if the user interacted in it.
C6_OnInteractNeedsInteraction == (CycleInMode("OnInteract") /\ cyc.ran) => cyc.interact

\* C7: a cycle in OnCompileSuccess mode in which a load call returned true calls
\* run(); one with no load or a failed load, and without Run pressed, does not.
C7_OnCompileSuccess ==
    LET load_true == cyc.edit_load = "ok" \/ cyc.reset_load = "ok" IN
    CycleInMode("OnCompileSuccess") =>
        /\ load_true => cyc.ran
        /\ (~load_true /\ ~cyc.run_clicked) => ~cyc.ran

C10_ModeChangesOnlyBySelection == [][run_schedule' # run_schedule => op' = "select"]_vars

\* C11: whether a cycle calls run() is decided by the mode the cycle started in: the
\* do_run match, the Run button and a successful load under OnCompileSuccess, all
\* with the mode as it was when the cycle began.
C11_StartModeDecides ==
    CycleEnd =>
        (cyc.ran <=> \/ InitialDoRun(cyc.mode0)
                     \/ cyc.run_clicked
                     \/ (cyc.edit_load = "ok" /\ cyc.mode0 = "OnCompileSuccess"))

\* C12: no run is queued across cycles: whether a cycle calls run() is a function of
\* that cycle alone (the mode it started in, the mode at the OnCompileSuccess check,
\* a Run press and the load result of an edit in it), whatever happened in earlier
\* cycles.
C12_NoQueuedRun ==
    CycleEnd =>
        (cyc.ran <=> \/ cyc.mode0 \in {"EachFrame", "OnInteract"}
                     \/ cyc.run_clicked
                     \/ (cyc.edit_load = "ok" /\ run_schedule = "OnCompileSuccess"))

\* a cycle without a trigger that does not run, after a cycle that ran and plotted
C12_Witness ==
    /\ CycleInMode("Manual")
    /\ ~cyc.run_clicked
    /\ cyc.edit_load = "none"
    /\ ~cyc.ran
    /\ plot_info # <<>>

IsPrefix(s, t) == Len(s) <= Len(t) /\ SubSeq(t, 1, Len(s)) = s

\* C13: entries leave the log only through Clear: every other step (load, run,
\* Reset, replay, poll, mode change) keeps the entries that were there, in order,
\* and only appends after them.
C13_OnlyClearRemoves == [][op' # "clear" => IsPrefix(logs, logs')]_vars

Last(s) == s[Len(s)]

\* the step is the poll of the slot at the start of a cycle
PollStep == pc = "idle" /\ pc' = "top"

\* C14: the slot holds one value, the pick result written last since the last poll
\* (none when nothing was written); a poll after two writes applies that one result
\* to the document and not the earlier one, and leaves the slot empty, so the poll
\* after it finds nothing unless a new result was written.
C14_LastWriteWins ==
    /\ [](load_file_event = IF hist.writes = <<>> THEN <<>> ELSE <<Last(hist.writes)>>)
    /\ [][(PollStep /\ Len(hist.writes) >= 2) =>
             /\ <<source_code', file_name'>> = Last(hist.writes)
             /\ hist.writes[1] # Last(hist.writes) =>
                    <<source_code', file_name'>> # hist.writes[1]
             /\ load_file_event' = <<>>
             /\ hist'.writes = <<>>]_vars

C14_Witness ==
    /\ op = "poll"
    /\ Len(cyc.polled) = 2
    /\ cyc.polled[1] # cyc.polled[2]
    /\ <<source_code, file_name>> = cyc.polled[2]
    /\ load_file_event = <<>>

\* C15: every cycle starts with one poll of the slot and no other step of the cycle
\* polls or touches the slot; a poll that finds a value takes it, leaves the slot
\* empty and makes it the text and file name of the document; a poll that finds
\* nothing changes nothing, and a poll with no write since the poll before applies
\* nothing, so one written result is applied at most once.
C15_PollOncePerCycle ==
    [][/\ (pc = "idle" /\ pc' # "idle") => op' = "poll"
       /\ pc # "idle" => (op' # "poll" /\ load_file_event' = load_file_event)
       /\ op' = "poll" =>
             IF load_file_event # <<>>
             THEN /\ load_file_event' = <<>>
                  /\ <<source_code', file_name'>> = load_file_event[1]
             ELSE UNCHANGED <<load_file_event, source_code, file_name>>
       /\ (op' = "poll" /\ hist.writes = <<>>) => UNCHANGED <<source_code, file_name>>]_vars

C15_Witness ==
    /\ op = "poll"
    /\ Len(cyc.polled) = 1
    /\ <<source_code, file_name>> = cyc.polled[1]
    /\ load_file_event = <<>>

\* C16: a plot call with a two-dimensional series appends no command: no command of
\* the command buffer, of plot_info or of what a replay was given has a series that
\* is not one-dimensional.
C16_TwoDimensionalRejected ==
    \A cmds \in {COMMANDS, plot_info, cyc.replayed} :
        \A i \in 1..Len(cmds) : cmds[i].x.ndim = 1 /\ cmds[i].y.ndim = 1

\* the exceptions the scripts of Sources can raise, as run() formats them
ErrorEntries ==
    {"Error: " \o e : e \in {"NameError: name 'x' is not defined",
                             "RuntimeError: X Must be float32",
                             "RuntimeError: Y Must be float32"}}

\* the script stored in code_obj raises when it is run on scope sc
Raises(sc) ==
    \/ code_obj = <<Compile(SrcInc)[2]>> /\ ~Bound(sc)
    \/ code_obj \in {<<Compile(SrcPlot)[2]>>, <<Compile(SrcFault)[2]>>}

\* C17: a run() of a script that raises appends what the script printed before the
\* fault and then exactly one entry, "Error: " and the exception, after the entries
\* that were there; it keeps the stored artifact, and the scope keeps the bindings
\* made before the fault ("x = 1; print(x); plot(x, x)" leaves x = 1, prints 1 and
\* raises in plot).  A run() that does not raise appends no "Error:" entry.
C17_FaultIsLogged ==
    [][op' = "run" =>
         LET new == SubSeq(logs', Len(logs) + 1, Len(logs')) IN
         /\ IsPrefix(logs, logs')
         /\ code_obj' = code_obj
         /\ \A i \in 1..Len(new) : new[i] \in ErrorEntries => (i = Len(new) /\ Raises(scope))
         /\ Raises(scope) => (new # <<>> /\ Last(new) \in ErrorEntries)
         /\ code_obj = <<Compile(SrcFault)[2]>> =>
               /\ new = <<"1", "\n", "Error: RuntimeError: X Must be float32">>
               /\ scope' = {<<"x", 1>>}
         /\ (code_obj = <<Compile(SrcInc)[2]>> /\ ~Bound(scope)) =>
               /\ new = <<"Error: NameError: name 'x' is not defined">>
               /\ scope' = scope
         /\ code_obj = <<Compile(SrcPlot)[2]>> =>
               /\ new = <<"Error: RuntimeError: Y Must be float32">>
               /\ scope' = scope]_vars

C17_Witness ==
    /\ op = "run"
    /\ code_obj = <<Compile(SrcFault)[2]>>
    /\ logs = <<"1", "\n", "Error: RuntimeError: X Must be float32">>
    /\ scope = {<<"x", 1>>}

\* C18: Reset replaces the kernel: afterwards the scope is empty and the stored
\* artifact is the one compiled from the text of the document, or none when that
\* text does not compile, whatever the old kernel held; a run() later in the cycle of
\* a reset whose compile failed executes nothing and changes nothing.
C18_ResetReplacesKernel ==
    [][/\ op' = "reset_ok" =>
            /\ Compile(source_code)[1] = "Ok"
            /\ scope' = EmptyScope
            /\ code_obj' = <<Compile(source_code)[2]>>
       /\ op' = "reset_fail" =>
            /\ Compile(source_code)[1] = "Err"
            /\ scope' = EmptyScope
            /\ code_obj' = <<>>
       /\ (op' = "run" /\ cyc.reset_load = "fail" /\ cyc.edit_load # "ok") =>
            /\ hist'.ran_code = <<>>
            /\ UNCHANGED <<logs, scope, code_obj, COMMANDS>>]_vars

\* run() after a reset with a text that does not compile, in a session that had
\* run a plotting script before
C18_Witness ==
    /\ op = "run"
    /\ cyc.reset_load = "fail"
    /\ code_obj = <<>>
    /\ scope = EmptyScope
    /\ plot_info # <<>>

\* C19: run() called while no artifact is stored executes nothing and leaves the
\* log, the scope, the absent artifact and the command buffer as they were.
C19_RunWithoutArtifact ==
    [][(op' = "run" /\ code_obj = <<>>) =>
          /\ hist'.ran_code = <<>>
          /\ logs' = logs
          /\ scope' = scope
          /\ code_obj' = <<>>
          /\ COMMANDS' = COMMANDS]_vars

\* run() in a session whose kernel never had an artifact
C19_Witness ==
    /\ op = "run"
    /\ code_obj = <<>>
    /\ cyc.reset_load = "none"
    /\ cyc.edit_load = "none"
    /\ logs = <<"Compile error: SyntaxError">>

\* C20: a drain returns the commands pushed since the drain before, in the order
\* they were pushed, and leaves the buffer empty; a drain that follows a drain with
\* no push in between returns the empty sequence.
C20_DrainIdempotent ==
    [][op' = "dump" =>
          /\ Last(hist'.drained) = hist.recorded
          /\ COMMANDS' = <<>>
          /\ hist.drained # <<>> => Last(hist'.drained) = <<>>]_vars

\* two drains in a row after two different commands were pushed
C20_Witness ==
    /\ op = "dump"
    /\ Len(hist.drained) = 2
    /\ Len(hist.drained[1]) = 2
    /\ hist.drained[1][1] # hist.drained[1][2]
    /\ hist.drained[2] = <<>>
    /\ COMMANDS = <<>>

\* the mode is EachFrame and a frame is pending (between two cycles) or the cycle
\* under way started in EachFrame mode
EachFrameActive == run_schedule = "EachFrame" /\ repaint

\* a bound of the model (MaxLog, MaxX) stops the cycle in the middle
Saturated == pc # "idle" /\ ~ENABLED Next

\* C21: a cycle that starts in EachFrame mode asks for another cycle, and while the
\* mode stays EachFrame cycles keep coming without any user input and run() is
\* called again and again.
C21_EachFrameKeepsRunning ==
    /\ [][(op' = "poll" /\ run_schedule = "EachFrame") => repaint']_vars
    /\ [](EachFrameActive => <>(op = "run" \/ run_schedule # "EachFrame" \/ Saturated))

\* run() in a cycle without user input that follows a cycle without user input
C21_Witness ==
    /\ op = "run"
    /\ cyc.mode0 = "EachFrame"
    /\ ~cyc.interact
    /\ plot_info # <<>>
    /\ scope = {<<"x", 2>>}

\* the largest index below i of a command of plot_info with one of the tags, 0 if none
LastBefore(i, tags) ==
    LET js == {j \in 1..(i - 1) : plot_info[j].tag \in tags} IN
    IF js = {} THEN 0 ELSE CHOOSE j \in js : \A k \in js : k <= j

\* the indices of the series commands of plot_info, in sequence order
SeriesAt(n) ==
    CHOOSE i \in 1..Len(plot_info) :
        /\ plot_info[i].tag = "PlotXY"
        /\ Cardinality({j \in 1..i : plot_info[j].tag = "PlotXY"}) = n

C23_BufferEmptyAtCycleEnd ==
    /\ [](pc = "idle" => COMMANDS = <<>>)
    /\ [][/\ COMMANDS' # COMMANDS => op' \in {"run", "dump"}
          /\ op' = "run" => (pc = "run" /\ pc' = "dump")
          /\ pc = "dump" => (op' = "dump" /\ COMMANDS' = <<>> /\ pc' = "idle")]_vars

\* the end of a cycle with a Reset, a failed load and a run that plotted and faulted
C23_Witness ==
    /\ CycleEnd
    /\ cyc.reset_load = "ok"
    /\ cyc.edit_load = "fail"
    /\ cyc.ran
    /\ logs # <<>>
    /\ Last(logs) = "Error: RuntimeError: Y Must be float32"
    /\ plot_info # <<>>
    /\ COMMANDS = <<>>

\* the commands a run() of the code object ran records, in call order: the script
\* "plot(a, a); plot(a, m); plot(a, [0])" records two and faults in the third call,
\* the other scripts make no plot call, and with no artifact nothing is run
RecordedBy(ran) ==
    IF ran = <<Compile(SrcPlot)[2]>>
    THEN <<[tag |-> "PlotXY", x |-> ArrA, y |-> ArrA],
           [tag |-> "PlotXY", x |-> ArrA, y |-> ArrM]>>
    ELSE <<>>

\* C24: between cycles plot_info is what the latest run() recorded, in call order
\* (nothing before the first run(), nothing when that run() had no artifact or made
\* no plot call, the commands before the fault when it faulted): the drain after
\* run() assigns it and no other step (Reset, Clear, SVG export, a cycle without
\* run()) changes it.
C24_PlotInfoIsLastRun ==
    /\ [](pc = "idle" => plot_info = hist.last_run_cmds)
    /\ [][/\ op' = "run" => hist'.last_run_cmds = RecordedBy(hist'.ran_code)
          /\ op' = "dump" => plot_info' = RecordedBy(hist.ran_code)
          /\ op' # "dump" => plot_info' = plot_info]_vars

\* the end of a cycle with a Reset and no run(), after a cycle whose run() plotted
\* twice and faulted
C24_Witness ==
    /\ CycleEnd
    /\ ~cyc.ran
    /\ cyc.reset_load # "none"
    /\ plot_info = RecordedBy(<<Compile(SrcPlot)[2]>>)

====
